---- MODULE Spec2Model ----
(***************************************************************************)
(* A model of the mdpreview server (package server): the file on disk, the *)
(* websocket sessions of one Server, and per session the watcher, the      *)
(* writer loop and the reader loop, with the atomic persist of the reader. *)
(***************************************************************************)
EXTENDS Integers, Sequences, FiniteSets, TLC

----------------------------------------------------------------------------
(* Bounds of the model *)

\* sessions whose watcher, writer loop and reader loop all run (Spec)
NumLive == 1
\* sessions whose reader loops persist concurrently (SpecSave)
NumSavers == 2
\* longest file content, in bytes
MaxLen == 2
\* events the platform watcher queues for one session before it overflows
MaxEvents == 1

----------------------------------------------------------------------------
(* Program constants *)

\* capacity of the change-notification channel, make(chan struct{}, 1)
ChangesCap == 1

----------------------------------------------------------------------------
(* Values *)

Max(a, b) == IF a >= b THEN a ELSE b

Sessions == 1..Max(NumLive, NumSavers)
LiveSessions == 1..NumLive
SaveSessions == 1..NumSavers

Bytes == {"a", "b"}
\* the byte a hole of a sparse write reads as
Zero == "0"

\* strings of at most n bytes
RECURSIVE StringsUpTo(_)
StringsUpTo(n) ==
    IF n = 0 THEN {<<>>}
    ELSE LET shorter == StringsUpTo(n - 1)
         IN  shorter \cup {Append(c, b) : c \in {x \in shorter : Len(x) = n - 1}, b \in Bytes}

Contents == StringsUpTo(MaxLen)

\* the contents clients ask to save: the empty one and the longest uniform ones
SaveContents == {c \in Contents : Len(c) \in {0, MaxLen} /\ \A i \in 1..Len(c) : c[i] = c[1]}
\* the contents other programs give the file
ExtContents == {c \in Contents : Len(c) = 1}

\* s.path and tmpFile := s.path + ".tmp"
Names == {"path", "tmp"}
NoIno == 0
Inodes == 1..(Max(NumLive, NumSavers) + 2)

\* fsnotify.Op flags of one event
Ops == {"Write", "Chmod", "Remove", "Rename"}

----------------------------------------------------------------------------
(* State *)

VARIABLES
    dir,        \* the directory: name -> inode, NoIno when the name does not exist
    data,       \* inode -> bytes of the file
    cancelled,  \* s.ctx is done
    conn,       \* session -> "none" | "rejected" | "refused" | "open" | "closed" (ws)
    closes,     \* session -> number of ws.Close() calls made
    peer,       \* session -> "up" | "gone": the client end of the connection
    rpc,        \* session -> position of reader
    rbuf,       \* session -> the content reader holds (initial content, or msg["content"])
    fd,         \* session -> inode os.WriteFile has open, or NoIno
    off,        \* session -> bytes of rbuf os.WriteFile has written
    wpc,        \* session -> position of writer
    wbuf,       \* session -> rendered bytes writer is about to push
    changes,    \* session -> notifications queued in the changes channel
    tpc,        \* session -> position of watcher
    watch,      \* session -> inode the platform watch of w is registered on, or NoIno
    events,     \* session -> queue of w.Events, each event a set of Op flags
    werr,       \* session -> an error is pending on w.Errors
    readd,      \* session -> re-registration goroutines sleeping
    first,      \* session -> kind of the first data message the client was sent:
                \*            "content", "html" or "error"; "none" before it
    lastHtml,   \* session -> last render pushed to the client, or NoMsg
    written,    \* the initial content and the content of every save request received
    lastSave,   \* session -> [clean, done] of the save request last received (its
                \*            content is rbuf): clean until someone else mutates the file
                \*            system (after done: anyone), done once its persist
                \*            reported success
    burst,      \* session -> bookkeeping of one burst of notifications (see Burst*)
    lastSent,   \* session -> kind of the last data message the client was sent:
                \*            "content", "html" or "error"; "none" before any; "off"
                \*            when not recorded in this specification
    lastIn,     \* session -> [kind, msg, late]: the message the reader received last
                \*            (kind "msg") and whether the context was already done
                \*            when it arrived; kind "none" before any; kind "off" when
                \*            not recorded in this specification
    lastWin,    \* [some, content]: the content of the save whose rename succeeded last
    dirty,      \* session -> the persist of its save request last received changed the
                \*            content of the target file by a write of the temporary file
    live,       \* session -> [on, left, due, pong, got, mute, renewed, expired]: the
                \*            timing of the liveness check. left: seconds until the
                \*            read deadline of ws expires; due: pingTicker has fired
                \*            and the writer has not taken the tick; pong: a liveness
                \*            response is on its way to the reader; got: a message
                \*            was received in the current ping interval; mute: the
                \*            client has stopped answering pings; renewed: the pong
                \*            handler has run; expired: a read failed on the
                \*            deadline; on is FALSE when time is not modelled in
                \*            this specification
    hist        \* what became of the path so far: "off" (not recorded in this
                \* specification), "steady" (written and replaced
                \* only), "removed", "recreated" (removed, then created), or "mixed"
                \* (anything else, or a watcher's event queue overflowed)

fsVars == <<dir, data, watch, events, werr, hist>>
connVars == <<conn, closes, peer>>
readerVars == <<rpc, rbuf, fd, off>>
writerVars == <<wpc, wbuf, changes>>
watcherVars == <<tpc, readd>>
sentVars == <<first, lastSent, lastIn>>
persistVars == <<lastWin, dirty>>
ghostVars == <<first, lastHtml, written, lastSave, burst, lastSent, lastIn, lastWin,
               dirty>>
vars == <<dir, data, cancelled, conn, closes, peer, rpc, rbuf, fd, off, wpc, wbuf,
          changes, tpc, watch, events, werr, readd, first, lastHtml, written,
          lastSave, burst, lastSent, lastIn, lastWin, dirty, live, hist>>

NoMsg == [kind |-> "none", body |-> <<>>]
NoSave == [clean |-> FALSE, done |-> FALSE]
NoBurst == [phase |-> "off", attempts |-> 0, renders |-> 0]
NoWin == [some |-> FALSE, content |-> <<>>]
NoLive ==
    [on |-> FALSE, left |-> 0, due |-> FALSE, pong |-> FALSE, got |-> FALSE,
     mute |-> FALSE, renewed |-> FALSE, expired |-> FALSE]

----------------------------------------------------------------------------
(* The file system *)

Range(f) == {f[x] : x \in DOMAIN f}

\* os.ReadFile(s.path): the whole content, or an error when the path is missing
ReadFile ==
    IF dir["path"] = NoIno THEN [ok |-> FALSE, bytes |-> <<>>]
    ELSE [ok |-> TRUE, bytes |-> data[dir["path"]]]

\* the lowest inode that no name and no open descriptor refers to
FreeIno(d, f) ==
    LET free == Inodes \ (Range(d) \cup Range(f))
    IN  CHOOSE i \in free : \A j \in free : i <= j

\* write(2) of chunk at offset o of a file holding f; a gap reads as zero bytes
Overwrite(f, o, chunk) ==
    LET n == Max(Len(f), o + Len(chunk))
    IN  [i \in 1..n |->
            IF i > o /\ i <= o + Len(chunk) THEN chunk[i - o]
            ELSE IF i <= Len(f) THEN f[i]
            ELSE Zero]

\* the platform queues ops for a watcher; what does not fit is dropped (overflow)
Post(q, ops) ==
    IF Len(q) + Len(ops) <= MaxEvents THEN q \o ops
    ELSE q \o SubSeq(ops, 1, MaxEvents - Len(q))

\* hist after a change of the given kind to the path; over: an event was dropped
HistAfter(kind, over) ==
    IF hist = "off" THEN hist
    ELSE IF over THEN "mixed"
    ELSE IF kind = "none" THEN hist
    ELSE IF kind \in {"write", "replace"} /\ hist = "steady" THEN "steady"
    ELSE IF kind = "remove" /\ hist = "steady" THEN "removed"
    ELSE IF kind = "create" /\ hist = "removed" THEN "recreated"
    ELSE "mixed"

\* One file-system mutation: the new directory, descriptors and data, the inode ino it
\* touches, the events ops its watchers get, whether their watch is removed (the
\* inode was unlinked or moved away), and what kind of change to the path it is.
\* Unreferenced inodes are cleared.
FsStep(ndir, nfd, ndata, ino, ops, gone, kind) ==
    /\ hist' = HistAfter(kind, \E s \in Sessions :
                   ino # NoIno /\ watch[s] = ino /\ Len(events[s]) + Len(ops) > MaxEvents)
    /\ dir' = ndir
    /\ fd' = nfd
    /\ data' = [i \in Inodes |->
                  IF i \in Range(ndir) \cup Range(nfd) THEN ndata[i] ELSE <<>>]
    /\ events' = [s \in Sessions |->
                  IF ino # NoIno /\ watch[s] = ino THEN Post(events[s], ops)
                  ELSE events[s]]
    /\ werr' = [s \in Sessions |->
                  \/ werr[s]
                  \/ ino # NoIno /\ watch[s] = ino /\ Len(events[s]) + Len(ops) > MaxEvents]
    /\ watch' = [s \in Sessions |->
                  IF gone /\ ino # NoIno /\ watch[s] = ino THEN NoIno ELSE watch[s]]

\* events a watcher of an inode gets when its last link goes away: the platform
\* reports the removal
UnlinkOps == {<<{"Remove"}>>}

\* the bookkeeping of lastSave when session s (0: the environment) mutates the files
Touched(s) ==
    [t \in Sessions |->
        IF t = s /\ ~lastSave[t].done THEN lastSave[t]
        ELSE [lastSave[t] EXCEPT !.clean = FALSE]]

----------------------------------------------------------------------------
(* The connection *)

\* ws.Close()
Close(s) ==
    /\ conn' = [conn EXCEPT ![s] = "closed"]
    /\ closes' = [closes EXCEPT ![s] = @ + 1]

\* ws.WriteMessage succeeds while the connection is open and the client is there
CanWrite(s) == conn[s] = "open" /\ peer[s] = "up"

\* the client is sent a data message: the first one is remembered
Deliver(s, kind) ==
    /\ first' = [first EXCEPT ![s] = IF @ = "none" THEN kind ELSE @]
    /\ lastSent' = [lastSent EXCEPT ![s] = IF @ = "off" THEN @ ELSE kind]
    /\ UNCHANGED lastIn

\* the client goes away (disconnect, network failure, no liveness response)
PeerGone(s) ==
    /\ conn[s] = "open"
    /\ peer[s] = "up"
    /\ peer' = [peer EXCEPT ![s] = "gone"]
    /\ UNCHANGED <<fsVars, cancelled, live, conn, closes, readerVars, writerVars, watcherVars,
                   ghostVars>>

\* main: cancel() on SIGINT/SIGTERM
Cancel ==
    /\ ~cancelled
    /\ cancelled' = TRUE
    /\ UNCHANGED <<fsVars, connVars, readerVars, writerVars, watcherVars, ghostVars,
                   live>>

----------------------------------------------------------------------------
(* The upgrade *)

Hosts == {"localhost:8080", "evil.example"}
\* an Origin header value: <<>> (empty), <<"null">> or <<scheme, host>>
OriginValues ==
    {<<>>, <<"null">>} \cup {<<sch, h>> : sch \in {"http://", "https://"}, h \in Hosts}
Requests ==
    [hasOrigin : BOOLEAN, origin : OriginValues, host : Hosts, handshake : BOOLEAN]

\* r.Header.Get("Origin"): "" when the header is absent
HeaderGetOrigin(r) == IF r.hasOrigin THEN r.origin ELSE <<>>

\* CheckOrigin as it would be had the host comparison been left out
CheckOriginAnyHost(r) ==
    LET origin == HeaderGetOrigin(r)
    IN  origin = <<>> \/ (Len(origin) = 2 /\ origin[1] = "http://")

\* Upgrader.CheckOrigin: origin == "" || origin == "http://"+r.Host
CheckOrigin(r) ==
    LET origin == HeaderGetOrigin(r)
    IN  origin = <<>> \/ origin = <<"http://">> \o <<r.host>>

\* s.upgrader.Upgrade: the handshake must be well formed (else 400) and the origin
\* must pass CheckOrigin (else 403)
Upgrade(r) ==
    IF ~r.handshake THEN "rejected"
    ELSE IF ~CheckOrigin(r) THEN "refused"
    ELSE "open"

\* handleWebSocket: on a failed upgrade return; else go s.writer(ws); s.reader(ws)
HandleWebSocket(s, r) ==
    /\ conn[s] = "none"
    /\ conn' = [conn EXCEPT ![s] = Upgrade(r)]
    /\ IF Upgrade(r) = "open"
       THEN /\ wpc' = [wpc EXCEPT ![s] = "start"]
            /\ rpc' = [rpc EXCEPT ![s] = "start"]
       ELSE UNCHANGED <<wpc, rpc>>
    /\ UNCHANGED <<fsVars, cancelled, live, closes, peer, rbuf, fd, off, wbuf, changes,
                   watcherVars, ghostVars>>

----------------------------------------------------------------------------
(* The reader loop and the atomic persist *)

\* an inbound frame: whether it parses as a JSON object of strings, and its fields
InMsgs ==
    {[json |-> FALSE, hasType |-> FALSE, type |-> "", hasContent |-> FALSE,
      content |-> <<>>]}
    \cup {[json |-> TRUE, hasType |-> FALSE, type |-> "", hasContent |-> TRUE,
           content |-> c] : c \in SaveContents}
    \cup {[json |-> TRUE, hasType |-> TRUE, type |-> t, hasContent |-> FALSE,
           content |-> <<>>] : t \in {"save", "other"}}
    \cup {[json |-> TRUE, hasType |-> TRUE, type |-> t, hasContent |-> TRUE,
           content |-> c] : t \in {"save", "other"}, c \in SaveContents}

\* pingInterval and the read deadline, in seconds
PingInterval == 2
ReadDeadline == 60

\* no message received, or none recorded
NoIn ==
    [kind |-> "off",
     msg |-> [json |-> FALSE, hasType |-> FALSE, type |-> "", hasContent |-> FALSE,
              content |-> <<>>],
     late |-> FALSE]

\* MsgType as it would be had a message without a type been taken for a save request
MsgTypeDefaultSave(m) == IF m.hasType THEN m.type ELSE "save"

\* msg["type"], msg["content"] of a map[string]string: "" for a missing key
MsgType(m) == IF m.hasType THEN m.type ELSE ""

\* MsgContent as it would be had a missing content been written out as null
MsgContentNull(m) == IF m.hasContent THEN m.content ELSE <<"n", "u", "l", "l">>

\* msg["content"]
MsgContent(m) == IF m.hasContent THEN m.content ELSE <<>>

\* reader, entry: SetReadDeadline (fails on a closed connection: return), then
\* os.ReadFile(s.path) for the initial content
ReaderStart(s) ==
    /\ rpc[s] = "start"
    /\ IF conn[s] # "open"
       THEN /\ rpc' = [rpc EXCEPT ![s] = "done"]
            /\ Close(s)
            /\ UNCHANGED rbuf
       ELSE /\ IF ReadFile.ok
               THEN /\ rpc' = [rpc EXCEPT ![s] = "initWrite"]
                    /\ rbuf' = [rbuf EXCEPT ![s] = ReadFile.bytes]
               ELSE /\ rpc' = [rpc EXCEPT ![s] = "loop"]
                    /\ UNCHANGED rbuf
            /\ UNCHANGED <<conn, closes>>
    /\ live' = [live EXCEPT ![s] =
                   IF @.on /\ conn[s] = "open" THEN [@ EXCEPT !.left = ReadDeadline]
                   ELSE @]
    /\ UNCHANGED <<fsVars, cancelled, peer, fd, off, writerVars, watcherVars, ghostVars>>

\* ReaderInitWrite as it would be had a failed write made the reader return
ReaderInitWriteReturns(s) ==
    /\ rpc[s] = "initWrite"
    /\ rbuf' = [rbuf EXCEPT ![s] = <<>>]
    /\ IF CanWrite(s)
       THEN /\ rpc' = [rpc EXCEPT ![s] = "loop"]
            /\ Deliver(s, "content")
            /\ UNCHANGED <<conn, closes>>
       ELSE /\ rpc' = [rpc EXCEPT ![s] = "done"]
            /\ Close(s)
            /\ UNCHANGED sentVars
    /\ UNCHANGED <<fsVars, cancelled, live, peer, fd, off, writerVars, watcherVars,
                   lastHtml, written, lastSave, burst, persistVars>>

\* reader: ws.WriteMessage of {"type": "content", "content": string(content)};
\* a failure is logged only
ReaderInitWrite(s) ==
    /\ rpc[s] = "initWrite"
    /\ rpc' = [rpc EXCEPT ![s] = "loop"]
    /\ rbuf' = [rbuf EXCEPT ![s] = <<>>]
    /\ IF CanWrite(s) THEN Deliver(s, "content") ELSE UNCHANGED sentVars
    /\ UNCHANGED <<fsVars, cancelled, live, connVars, fd, off, writerVars, watcherVars,
                   lastHtml, written, lastSave, burst, persistVars>>

\* reader, top of the loop: select { case <-s.ctx.Done(): return; default: ... }
ReaderLoop(s) ==
    /\ rpc[s] = "loop"
    /\ IF cancelled
       THEN /\ rpc' = [rpc EXCEPT ![s] = "done"]
            /\ Close(s)
       ELSE /\ rpc' = [rpc EXCEPT ![s] = "recv"]
            /\ UNCHANGED <<conn, closes>>
    /\ UNCHANGED <<fsVars, cancelled, live, peer, rbuf, fd, off, writerVars, watcherVars,
                   ghostVars>>

\* ReaderRecvErr as it would be had a failed read cancelled the server's context
ReaderRecvErrCancels(s) ==
    /\ rpc[s] = "recv"
    /\ ~CanWrite(s)
    /\ rpc' = [rpc EXCEPT ![s] = "done"]
    /\ Close(s)
    /\ cancelled' = TRUE
    /\ UNCHANGED <<fsVars, peer, rbuf, fd, off, writerVars, watcherVars, ghostVars,
                   live>>

\* reader: ws.ReadMessage fails (connection closed, client gone, deadline): return
ReaderRecvErr(s) ==
    /\ rpc[s] = "recv"
    /\ ~CanWrite(s)
    /\ rpc' = [rpc EXCEPT ![s] = "done"]
    /\ Close(s)
    /\ UNCHANGED <<fsVars, cancelled, live, peer, rbuf, fd, off, writerVars, watcherVars,
                   ghostVars>>

\* reader: ws.ReadMessage returns m; json.Unmarshal; switch msg["type"]
ReaderRecvMsg(s, m) ==
    /\ rpc[s] = "recv"
    /\ CanWrite(s)
    /\ ~live[s].got
    /\ live' = [live EXCEPT ![s].got = live[s].on]
    /\ IF m.json /\ MsgType(m) = "save"
       THEN /\ rpc' = [rpc EXCEPT ![s] = "open"]
            /\ rbuf' = [rbuf EXCEPT ![s] = MsgContent(m)]
            /\ written' = written \cup {MsgContent(m)}
            /\ lastSave' = [lastSave EXCEPT ![s] =
                              [clean |-> TRUE, done |-> FALSE]]
            /\ dirty' = [dirty EXCEPT ![s] = FALSE]
       ELSE /\ rpc' = [rpc EXCEPT ![s] = "loop"]
            /\ UNCHANGED <<rbuf, written, lastSave, dirty>>
    /\ lastIn' = [lastIn EXCEPT ![s] =
                     IF @.kind = "off" THEN @
                     ELSE [kind |-> "msg", msg |-> m, late |-> cancelled]]
    /\ UNCHANGED <<fsVars, cancelled, connVars, fd, off, writerVars, watcherVars,
                   first, lastSent, lastHtml, burst, lastWin>>

\* SaveOpen as it would be had the temporary file been opened without O_TRUNC
SaveOpenNoTrunc(s) ==
    /\ rpc[s] = "open"
    /\ \/ LET old == dir["tmp"]
              ino == IF old # NoIno THEN old ELSE FreeIno(dir, fd)
              empty == rbuf[s] = <<>>
          IN  /\ FsStep([dir EXCEPT !["tmp"] = ino],
                        [fd EXCEPT ![s] = IF empty THEN NoIno ELSE ino],
                        data, NoIno, <<>>, FALSE, "none")
              /\ rpc' = [rpc EXCEPT ![s] = IF empty THEN "rename" ELSE "write"]
              /\ off' = [off EXCEPT ![s] = 0]
              /\ lastSave' = Touched(s)
       \/ /\ rpc' = [rpc EXCEPT ![s] = "reply"]
          /\ UNCHANGED <<fsVars, fd, off, lastSave>>
    /\ UNCHANGED <<cancelled, live, connVars, rbuf, writerVars, watcherVars, sentVars, lastHtml,
                   written, burst, persistVars>>

\* saveContent, os.WriteFile(tmpFile, ...): open with O_WRONLY|O_CREATE|O_TRUNC;
\* nothing to write for an empty content, so the file is closed at once
SaveOpen(s) ==
    /\ rpc[s] = "open"
    /\ \/ LET old == dir["tmp"]
              ino == IF old # NoIno THEN old ELSE FreeIno(dir, fd)
              empty == rbuf[s] = <<>>
          IN  /\ FsStep([dir EXCEPT !["tmp"] = ino],
                        [fd EXCEPT ![s] = IF empty THEN NoIno ELSE ino],
                        [data EXCEPT ![ino] = <<>>],
                        old, <<{"Write"}>>, FALSE, "none")
              /\ rpc' = [rpc EXCEPT ![s] = IF empty THEN "rename" ELSE "write"]
              /\ off' = [off EXCEPT ![s] = 0]
              /\ lastSave' = Touched(s)
       \/ /\ rpc' = [rpc EXCEPT ![s] = "reply"]
          /\ UNCHANGED <<fsVars, fd, off, lastSave>>
    /\ UNCHANGED <<cancelled, live, connVars, rbuf, writerVars, watcherVars, sentVars, lastHtml,
                   written, burst, persistVars>>

\* saveContent, os.WriteFile: f.Write writes the next n bytes at the descriptor's
\* offset, then f.Close once all are written; a failed write closes and returns
SaveWrite(s, n) ==
    /\ rpc[s] = "write"
    /\ n \in 1..(Len(rbuf[s]) - off[s])
    /\ \/ LET ino == fd[s]
              chunk == SubSeq(rbuf[s], off[s] + 1, off[s] + n)
              last == off[s] + n = Len(rbuf[s])
          IN  /\ FsStep(dir, [fd EXCEPT ![s] = IF last THEN NoIno ELSE ino],
                        [data EXCEPT ![ino] = Overwrite(@, off[s], chunk)],
                        ino, <<{"Write"}>>, FALSE,
                        IF ino = dir["path"] THEN "write" ELSE "none")
              /\ off' = [off EXCEPT ![s] = IF last THEN 0 ELSE @ + n]
              /\ rpc' = [rpc EXCEPT ![s] = IF last THEN "rename" ELSE "write"]
              /\ lastSave' = Touched(s)
              /\ dirty' = [dirty EXCEPT ![s] = @ \/ ino = dir["path"]]
       \/ /\ n = 1
          /\ FsStep(dir, [fd EXCEPT ![s] = NoIno], data, NoIno, <<>>, FALSE, "none")
          /\ off' = [off EXCEPT ![s] = 0]
          /\ rpc' = [rpc EXCEPT ![s] = "reply"]
          /\ UNCHANGED <<lastSave, dirty>>
    /\ UNCHANGED <<cancelled, live, connVars, rbuf, writerVars, watcherVars, sentVars, lastHtml,
                   written, burst, lastWin>>

\* saveContent: return os.Rename(tmpFile, s.path); the inode the path named loses
\* its link
SaveRename(s) ==
    /\ rpc[s] = "rename"
    /\ \/ /\ dir["tmp"] # NoIno
          /\ \E ops \in UnlinkOps :
                FsStep([dir EXCEPT !["path"] = dir["tmp"], !["tmp"] = NoIno], fd, data,
                       dir["path"], ops, TRUE, "replace")
          /\ rpc' = [rpc EXCEPT ![s] = "loop"]
          /\ lastSave' = [Touched(s) EXCEPT ![s].done = TRUE]
          /\ lastWin' = [some |-> TRUE, content |-> rbuf[s]]
       \/ /\ rpc' = [rpc EXCEPT ![s] = "reply"]
          /\ UNCHANGED <<fsVars, fd, lastSave, lastWin>>
    /\ UNCHANGED <<cancelled, live, connVars, rbuf, off, writerVars, watcherVars, sentVars,
                   lastHtml, written, burst, dirty>>

\* ReaderReply as it would be had the reader returned after reporting a failed save
ReaderReplyReturns(s) ==
    /\ rpc[s] = "reply"
    /\ rpc' = [rpc EXCEPT ![s] = "done"]
    /\ rbuf' = [rbuf EXCEPT ![s] = <<>>]
    /\ Close(s)
    /\ IF CanWrite(s) THEN Deliver(s, "error") ELSE UNCHANGED sentVars
    /\ UNCHANGED <<fsVars, cancelled, live, peer, fd, off, writerVars, watcherVars,
                   lastHtml, written, lastSave, burst, persistVars>>

\* reader, on a failed save: ws.WriteMessage of {"type": "error", ...}, result ignored
ReaderReply(s) ==
    /\ rpc[s] = "reply"
    /\ rpc' = [rpc EXCEPT ![s] = "loop"]
    /\ rbuf' = [rbuf EXCEPT ![s] = <<>>]
    /\ IF CanWrite(s) THEN Deliver(s, "error") ELSE UNCHANGED sentVars
    /\ UNCHANGED <<fsVars, cancelled, live, connVars, fd, off, writerVars, watcherVars,
                   lastHtml, written, lastSave, burst, persistVars>>

----------------------------------------------------------------------------
(* The environment's changes to the file *)

\* another program writes the file in place
ExternalWrite(c) ==
    /\ dir["path"] # NoIno
    /\ data[dir["path"]] # c
    /\ FsStep(dir, fd, [data EXCEPT ![dir["path"]] = c], dir["path"], <<{"Write"}>>, FALSE,
              "write")
    /\ lastSave' = Touched(0)
    /\ UNCHANGED <<cancelled, live, connVars, rpc, rbuf, off, writerVars, watcherVars, sentVars,
                   lastHtml, written, burst, persistVars>>

\* the flags of one event for a file rewritten in place, its mode changed, or both
\* at once (Op is a bitmask: a platform may report several operations in one event)
TouchOps == {{"Write"}, {"Chmod"}, {"Write", "Chmod"}}

\* another program rewrites the file in place with the bytes it has, changes its
\* mode, or both; the platform reports it in one event with the flags ops
ExternalTouch(ops) ==
    /\ dir["path"] # NoIno
    /\ FsStep(dir, fd, data, dir["path"], <<ops>>, FALSE, "write")
    /\ lastSave' = Touched(0)
    /\ UNCHANGED <<cancelled, live, connVars, rpc, rbuf, off, writerVars, watcherVars, sentVars,
                   lastHtml, written, burst, persistVars>>

\* another program saves by rename: a new file with content c replaces the path
ExternalReplace(c) ==
    /\ dir["path"] # NoIno
    /\ LET ino == FreeIno(dir, fd)
       IN  \E ops \in UnlinkOps :
              FsStep([dir EXCEPT !["path"] = ino], fd, [data EXCEPT ![ino] = c],
                     dir["path"], ops, TRUE, "replace")
    /\ lastSave' = Touched(0)
    /\ UNCHANGED <<cancelled, live, connVars, rpc, rbuf, off, writerVars, watcherVars, sentVars,
                   lastHtml, written, burst, persistVars>>

\* another program removes the path, or (moved) renames it to another name
ExternalRemove(moved) ==
    /\ dir["path"] # NoIno
    /\ \E ops \in IF moved THEN {<<{"Rename"}>>} ELSE UnlinkOps :
          FsStep([dir EXCEPT !["path"] = NoIno], fd, data, dir["path"], ops, TRUE, "remove")
    /\ lastSave' = Touched(0)
    /\ UNCHANGED <<cancelled, live, connVars, rpc, rbuf, off, writerVars, watcherVars, sentVars,
                   lastHtml, written, burst, persistVars>>

\* another program creates the path anew with content c
ExternalCreate(c) ==
    /\ dir["path"] = NoIno
    /\ LET ino == FreeIno(dir, fd)
       IN  FsStep([dir EXCEPT !["path"] = ino], fd, [data EXCEPT ![ino] = c],
                  NoIno, <<>>, FALSE, "create")
    /\ lastSave' = Touched(0)
    /\ UNCHANGED <<cancelled, live, connVars, rpc, rbuf, off, writerVars, watcherVars, sentVars,
                   lastHtml, written, burst, persistVars>>

----------------------------------------------------------------------------
(* The writer loop *)

\* github_flavored_markdown.Markdown(input): the HTML of the markdown bytes
Render(bytes) == <<"<p>">> \o bytes \o <<"</p>">>

\* bookkeeping of a burst: the render in flight ends
BurstRenderEnds(s) ==
    burst' = [burst EXCEPT ![s] =
                IF @.phase # "open" THEN @
                ELSE IF @.attempts >= 2 THEN [@ EXCEPT !.phase = "closed"]
                ELSE [phase |-> "spoiled", attempts |-> 0, renders |-> 0]]

\* bookkeeping of a burst: a render starts after the burst
BurstRenderStarts(s) ==
    burst' = [burst EXCEPT ![s] =
                IF @.phase = "closed" /\ @.renders < 3 THEN [@ EXCEPT !.renders = @ + 1]
                ELSE @]

\* bookkeeping of a burst: the watcher has a notification to emit. A burst opens
\* with a notification that comes up while the writer is busy with a render, and
\* counts those that come up during that same render (two or more make a burst);
\* one that comes up after that render spoils the count.
BurstAttempt(s) ==
    burst' = [burst EXCEPT ![s] =
                IF @.phase = "off" THEN @
                ELSE IF @.phase = "idle" /\ wpc[s] \in {"render", "write"}
                THEN [phase |-> "open", attempts |-> 1, renders |-> 1]
                ELSE IF @.phase = "open" THEN [@ EXCEPT !.attempts = 2]
                ELSE IF @.phase = "closed"
                THEN [phase |-> "spoiled", attempts |-> 0, renders |-> 0]
                ELSE @]

\* writer, entry: the ticker, changes := make(chan struct{}, 1), go s.watcher(changes)
WriterStart(s) ==
    /\ wpc[s] = "start"
    /\ wpc' = [wpc EXCEPT ![s] = "select"]
    /\ tpc' = [tpc EXCEPT ![s] = "new"]
    /\ UNCHANGED <<fsVars, fd, cancelled, live, connVars, rpc, rbuf, off, wbuf, changes, readd,
                   ghostVars>>

\* writer, select: case <-s.ctx.Done(): return (deferred ws.Close())
WriterCancel(s) ==
    /\ wpc[s] = "select"
    /\ cancelled
    /\ wpc' = [wpc EXCEPT ![s] = "done"]
    /\ Close(s)
    /\ UNCHANGED <<fsVars, fd, cancelled, live, peer, rpc, rbuf, off, wbuf, changes,
                   watcherVars, ghostVars>>

\* writer, select: case <-changes
WriterChange(s) ==
    /\ wpc[s] = "select"
    /\ changes[s] > 0
    /\ changes' = [changes EXCEPT ![s] = @ - 1]
    /\ wpc' = [wpc EXCEPT ![s] = "render"]
    /\ BurstRenderStarts(s)
    /\ UNCHANGED <<fsVars, fd, cancelled, live, connVars, rpc, rbuf, off, wbuf, watcherVars,
                   sentVars, lastHtml, written, lastSave, persistVars>>

\* WriterRender as it would be had the writer returned on a render error
WriterRenderReturns(s) ==
    /\ wpc[s] = "render"
    /\ IF ReadFile.ok
       THEN /\ wbuf' = [wbuf EXCEPT ![s] = Render(ReadFile.bytes)]
            /\ wpc' = [wpc EXCEPT ![s] = "write"]
            /\ UNCHANGED <<burst, conn, closes>>
       ELSE /\ wpc' = [wpc EXCEPT ![s] = "done"]
            /\ Close(s)
            /\ BurstRenderEnds(s)
            /\ UNCHANGED wbuf
    /\ UNCHANGED <<fsVars, fd, cancelled, live, peer, rpc, rbuf, off, changes, watcherVars,
                   sentVars, lastHtml, written, lastSave, persistVars>>

\* writer: rendered, err := s.render(); on an error log and continue
WriterRender(s) ==
    /\ wpc[s] = "render"
    /\ IF ReadFile.ok
       THEN /\ wbuf' = [wbuf EXCEPT ![s] = Render(ReadFile.bytes)]
            /\ wpc' = [wpc EXCEPT ![s] = "write"]
            /\ UNCHANGED burst
       ELSE /\ wpc' = [wpc EXCEPT ![s] = "select"]
            /\ BurstRenderEnds(s)
            /\ UNCHANGED wbuf
    /\ UNCHANGED <<fsVars, fd, cancelled, live, connVars, rpc, rbuf, off, changes, watcherVars,
                   sentVars, lastHtml, written, lastSave, persistVars>>

\* the body the rendering endpoint sends with a status other than 2xx
ApiErrorBody == <<"e", "r", "r">>

\* what client.Do(req) can come to: a transport error, or a response with a status
ApiOutcomes ==
    {[err |-> TRUE, status |-> 0]}
    \cup {[err |-> FALSE, status |-> st] : st \in {200, 403, 500}}

\* the body of the response with outcome o to a POST of input
ApiBody(o, input) == IF o.status \in 200..299 THEN Render(input) ELSE ApiErrorBody

\* render() of a server constructed with renderLocally false: os.ReadFile, the POST
\* to the rendering endpoint, io.ReadAll(resp.Body) whatever the status
RenderRemote(o) ==
    IF ~ReadFile.ok \/ o.err THEN [ok |-> FALSE, bytes |-> <<>>]
    ELSE [ok |-> TRUE, bytes |-> ApiBody(o, ReadFile.bytes)]

\* writer of a server constructed with renderLocally false:
\* rendered, err := s.render(); on an error log and continue
WriterRenderRemote(s, o) ==
    /\ wpc[s] = "render"
    /\ IF RenderRemote(o).ok
       THEN /\ wbuf' = [wbuf EXCEPT ![s] = RenderRemote(o).bytes]
            /\ wpc' = [wpc EXCEPT ![s] = "write"]
            /\ UNCHANGED burst
       ELSE /\ wpc' = [wpc EXCEPT ![s] = "select"]
            /\ BurstRenderEnds(s)
            /\ UNCHANGED wbuf
    /\ UNCHANGED <<fsVars, fd, cancelled, live, connVars, rpc, rbuf, off, changes, watcherVars,
                   sentVars, lastHtml, written, lastSave, persistVars>>

\* WriterPush as it would be had the writer gone on after a failed write
WriterPushContinues(s) ==
    /\ wpc[s] = "write"
    /\ wbuf' = [wbuf EXCEPT ![s] = <<>>]
    /\ BurstRenderEnds(s)
    /\ wpc' = [wpc EXCEPT ![s] = "select"]
    /\ IF CanWrite(s)
       THEN /\ Deliver(s, "html")
            /\ lastHtml' = [lastHtml EXCEPT ![s] = [kind |-> "html", body |-> wbuf[s]]]
       ELSE UNCHANGED <<sentVars, lastHtml>>
    /\ UNCHANGED <<fsVars, fd, cancelled, live, connVars, rpc, rbuf, off, changes, watcherVars,
                   written, lastSave, persistVars>>

\* writer: SetWriteDeadline, ws.WriteMessage(TextMessage, rendered); return on a failure
WriterPush(s) ==
    /\ wpc[s] = "write"
    /\ wbuf' = [wbuf EXCEPT ![s] = <<>>]
    /\ BurstRenderEnds(s)
    /\ IF CanWrite(s)
       THEN /\ wpc' = [wpc EXCEPT ![s] = "select"]
            /\ Deliver(s, "html")
            /\ lastHtml' = [lastHtml EXCEPT ![s] = [kind |-> "html", body |-> wbuf[s]]]
            /\ UNCHANGED <<conn, closes>>
       ELSE /\ wpc' = [wpc EXCEPT ![s] = "done"]
            /\ Close(s)
            /\ UNCHANGED <<sentVars, lastHtml>>
    /\ UNCHANGED <<fsVars, fd, cancelled, live, peer, rpc, rbuf, off, changes, watcherVars,
                   written, lastSave, persistVars>>

\* writer, select: case <-pingTicker.C: SetWriteDeadline, ws.WriteMessage(PingMessage);
\* return on a failure
WriterPing(s) ==
    /\ wpc[s] = "select"
    /\ live[s].on => live[s].due
    /\ IF CanWrite(s)
       THEN UNCHANGED <<wpc, conn, closes>>
       ELSE /\ wpc' = [wpc EXCEPT ![s] = "done"]
            /\ Close(s)
    /\ live' = [live EXCEPT ![s] =
                   IF @.on
                   THEN [@ EXCEPT !.due = FALSE,
                                  !.pong = @ \/ (CanWrite(s) /\ ~live[s].mute)]
                   ELSE @]
    /\ UNCHANGED <<fsVars, fd, cancelled, peer, rpc, rbuf, off, wbuf, changes,
                   watcherVars, ghostVars>>

----------------------------------------------------------------------------
(* The watcher *)

\* w.Close(): the platform watch is released, nothing more is queued
WatcherClose(s) ==
    /\ watch' = [watch EXCEPT ![s] = NoIno]
    /\ events' = [events EXCEPT ![s] = <<>>]
    /\ werr' = [werr EXCEPT ![s] = FALSE]

\* WatcherStart as it would be without the initial render trigger
WatcherStartNoTrigger(s, ok) ==
    /\ tpc[s] = "new"
    /\ IF ok /\ dir["path"] # NoIno
       THEN /\ watch' = [watch EXCEPT ![s] = dir["path"]]
            /\ tpc' = [tpc EXCEPT ![s] = "select"]
       ELSE /\ tpc' = [tpc EXCEPT ![s] = "done"]
            /\ UNCHANGED watch
    /\ UNCHANGED <<dir, data, events, werr, hist, fd, cancelled, live, connVars, rpc, rbuf, off,
                   writerVars, readd, ghostVars>>

\* watcher, entry: fsnotify.NewWatcher() (ok: it succeeds), w.Add(s.path); on a
\* failure log and return; else go on to the initial render trigger
WatcherStart(s, ok) ==
    /\ tpc[s] = "new"
    /\ IF ok /\ dir["path"] # NoIno
       THEN /\ watch' = [watch EXCEPT ![s] = dir["path"]]
            /\ tpc' = [tpc EXCEPT ![s] = "emit"]
       ELSE /\ tpc' = [tpc EXCEPT ![s] = "done"]
            /\ UNCHANGED watch
    /\ UNCHANGED <<dir, data, events, werr, hist, fd, cancelled, live, connVars, rpc, rbuf, off,
                   writerVars, readd, ghostVars>>

\* watcher: changes <- struct{}{}, a send that waits for room in the channel
WatcherEmit(s) ==
    /\ tpc[s] = "emit"
    /\ changes[s] < ChangesCap
    /\ changes' = [changes EXCEPT ![s] = @ + 1]
    /\ tpc' = [tpc EXCEPT ![s] = "select"]
    /\ UNCHANGED <<fsVars, fd, cancelled, live, connVars, rpc, rbuf, off, wpc, wbuf, readd,
                   ghostVars>>

\* watcher, select: case <-s.ctx.Done(): return (deferred w.Close())
WatcherCancel(s) ==
    /\ tpc[s] = "select"
    /\ cancelled
    /\ tpc' = [tpc EXCEPT ![s] = "done"]
    /\ WatcherClose(s)
    /\ UNCHANGED <<dir, data, hist, fd, cancelled, live, connVars, rpc, rbuf, off, writerVars,
                   readd, ghostVars>>

\* switch event.Op: the case values are compared with the whole Op value
Resubscribes(op) == op = {"Remove"} \/ op = {"Rename"}
Notifies(op) == Resubscribes(op) \/ op = {"Write"} \/ op = {"Chmod"}

\* watcher, select: case event := <-w.Events; on Remove or Rename start the delayed
\* re-add goroutine; on those and on Write or Chmod go on to send on changes
WatcherEvent(s) ==
    /\ tpc[s] = "select"
    /\ events[s] # <<>>
    /\ LET op == Head(events[s])
       IN  /\ events' = [events EXCEPT ![s] = Tail(@)]
           /\ readd' = [readd EXCEPT ![s] = IF Resubscribes(op) THEN @ + 1 ELSE @]
           /\ IF Notifies(op)
              THEN /\ tpc' = [tpc EXCEPT ![s] = "emit"]
                   /\ BurstAttempt(s)
              ELSE UNCHANGED <<tpc, burst>>
    /\ UNCHANGED <<dir, data, watch, werr, hist, fd, cancelled, live, connVars, rpc, rbuf, off,
                   writerVars, sentVars, lastHtml, written, lastSave, persistVars>>

\* WatcherError as it would be had the watcher returned on a watch error
WatcherErrorReturns(s) ==
    /\ tpc[s] = "select"
    /\ werr[s]
    /\ tpc' = [tpc EXCEPT ![s] = "done"]
    /\ WatcherClose(s)
    /\ UNCHANGED <<dir, data, hist, fd, cancelled, live, connVars, rpc, rbuf, off,
                   writerVars, readd, ghostVars>>

\* watcher, select: case err := <-w.Errors: log and go on
WatcherError(s) ==
    /\ tpc[s] = "select"
    /\ werr[s]
    /\ werr' = [werr EXCEPT ![s] = FALSE]
    /\ UNCHANGED <<dir, data, watch, events, hist, fd, cancelled, live, connVars, rpc, rbuf, off,
                   writerVars, watcherVars, ghostVars>>

\* the re-add goroutine, after time.Sleep(100ms): w.Add(s.path); it fails (logged)
\* when the watcher is closed or the path does not exist
ReAdd(s) ==
    /\ readd[s] > 0
    /\ readd' = [readd EXCEPT ![s] = @ - 1]
    /\ watch' = [watch EXCEPT ![s] =
                   IF tpc[s] # "done" /\ dir["path"] # NoIno THEN dir["path"] ELSE @]
    /\ UNCHANGED <<dir, data, events, werr, hist, fd, cancelled, live, connVars, rpc, rbuf, off,
                   writerVars, tpc, ghostVars>>

----------------------------------------------------------------------------
(* Specifications *)

\* the file main checked to exist, before any connection
InitContent == <<"a">>

InitProgram ==
    /\ dir = [n \in Names |-> IF n = "path" THEN 1 ELSE NoIno]
    /\ data = [i \in Inodes |-> IF i = 1 THEN InitContent ELSE <<>>]
    /\ cancelled = FALSE
    /\ conn = [s \in Sessions |-> "none"]
    /\ closes = [s \in Sessions |-> 0]
    /\ peer = [s \in Sessions |-> "up"]
    /\ rpc = [s \in Sessions |-> "idle"]
    /\ rbuf = [s \in Sessions |-> <<>>]
    /\ fd = [s \in Sessions |-> NoIno]
    /\ off = [s \in Sessions |-> 0]
    /\ wpc = [s \in Sessions |-> "idle"]
    /\ wbuf = [s \in Sessions |-> <<>>]
    /\ changes = [s \in Sessions |-> 0]
    /\ tpc = [s \in Sessions |-> "idle"]
    /\ watch = [s \in Sessions |-> NoIno]
    /\ events = [s \in Sessions |-> <<>>]
    /\ werr = [s \in Sessions |-> FALSE]
    /\ readd = [s \in Sessions |-> 0]
    /\ first = [s \in Sessions |-> "none"]
    /\ lastHtml = [s \in Sessions |-> NoMsg]
    /\ written = {InitContent}
    /\ lastSave = [s \in Sessions |-> NoSave]
    /\ lastWin = NoWin
    /\ dirty = [s \in Sessions |-> FALSE]

\* the server as constructed, nothing recorded about bursts or the path's history
Init ==
    /\ InitProgram
    /\ burst = [s \in Sessions |-> NoBurst]
    /\ lastSent = [s \in Sessions |-> "off"]
    /\ lastIn = [s \in Sessions |-> NoIn]
    /\ live = [s \in Sessions |-> NoLive]
    /\ hist = "off"

\* the same, recording the history of the path
InitChange ==
    /\ InitProgram
    /\ burst = [s \in Sessions |-> NoBurst]
    /\ lastSent = [s \in Sessions |-> "off"]
    /\ lastIn = [s \in Sessions |-> NoIn]
    /\ live = [s \in Sessions |-> NoLive]
    /\ hist = "steady"

\* the same, recording one burst of notifications per session
InitBurst ==
    /\ InitProgram
    /\ burst = [s \in Sessions |-> [NoBurst EXCEPT !.phase = "idle"]]
    /\ lastSent = [s \in Sessions |-> "off"]
    /\ lastIn = [s \in Sessions |-> NoIn]
    /\ live = [s \in Sessions |-> NoLive]
    /\ hist = "off"

\* the reader loops of the sessions persisting concurrently, and the file
NextSave ==
    \/ \E s \in SaveSessions, r \in Requests : HandleWebSocket(s, r)
    \/ \E s \in SaveSessions : ReaderStart(s)
    \/ \E s \in SaveSessions : ReaderInitWrite(s)
    \/ \E s \in SaveSessions : ReaderLoop(s)
    \/ \E s \in SaveSessions, m \in InMsgs : ReaderRecvMsg(s, m)
    \/ \E s \in SaveSessions : SaveOpen(s)
    \/ \E s \in SaveSessions, n \in 1..MaxLen : SaveWrite(s, n)
    \/ \E s \in SaveSessions : SaveRename(s)
    \/ \E s \in SaveSessions : ReaderReply(s)

SpecSave == Init /\ [][NextSave]_vars

\* the frames of a client that only views: none is a save request
ViewerMsgs == {m \in InMsgs : ~(m.json /\ MsgType(m) = "save")}

\* one step of a session whose client only views
SessionStep(s) ==
    \/ \E r \in Requests : HandleWebSocket(s, r)
    \/ WriterStart(s)
    \/ WriterCancel(s)
    \/ WriterChange(s)
    \/ WriterRender(s)
    \/ WriterPush(s)
    \/ WriterPing(s)
    \/ \E ok \in BOOLEAN : WatcherStart(s, ok)
    \/ WatcherEmit(s)
    \/ WatcherCancel(s)
    \/ WatcherEvent(s)
    \/ WatcherError(s)
    \/ ReAdd(s)
    \/ ReaderStart(s)
    \/ ReaderInitWrite(s)
    \/ ReaderLoop(s)
    \/ ReaderRecvErr(s)
    \/ \E m \in ViewerMsgs : ReaderRecvMsg(s, m)

\* what happens around the sessions
EnvStep ==
    \/ \E s \in LiveSessions : PeerGone(s)
    \/ \E c \in ExtContents : ExternalWrite(c)
    \/ \E c \in ExtContents : ExternalReplace(c)
    \/ \E moved \in BOOLEAN : ExternalRemove(moved)
    \/ \E c \in ExtContents : ExternalCreate(c)
    \/ Cancel

Next == (\E s \in LiveSessions : SessionStep(s)) \/ EnvStep

Spec == Init /\ [][Next]_vars
SpecChange == InitChange /\ [][Next]_vars

\* the sessions with a file that is only written and replaced
NextBurst ==
    \/ \E s \in LiveSessions : SessionStep(s)
    \/ \E s \in LiveSessions : PeerGone(s)
    \/ \E c \in ExtContents : ExternalWrite(c)
    \/ \E c \in ExtContents : ExternalReplace(c)
    \/ Cancel

SpecBurst == InitBurst /\ [][NextBurst]_vars

\* the server as constructed, recording the last message each client was sent
InitReply ==
    /\ InitProgram
    /\ burst = [s \in Sessions |-> NoBurst]
    /\ lastSent = [s \in Sessions |-> "none"]
    /\ lastIn = [s \in Sessions |-> [NoIn EXCEPT !.kind = "none"]]
    /\ live = [s \in Sessions |-> NoLive]
    /\ hist = "off"

\* the reader loops of sessions whose clients edit and may go away, and the file
\* being removed by others, up to cancellation
NextReply ==
    \/ \E s \in LiveSessions, r \in Requests : HandleWebSocket(s, r)
    \/ \E s \in LiveSessions : ReaderStart(s)
    \/ \E s \in LiveSessions : ReaderInitWrite(s)
    \/ \E s \in LiveSessions : ReaderLoop(s)
    \/ \E s \in LiveSessions : ReaderRecvErr(s)
    \/ \E s \in LiveSessions, m \in InMsgs : ReaderRecvMsg(s, m)
    \/ \E s \in LiveSessions : SaveOpen(s)
    \/ \E s \in LiveSessions, n \in 1..MaxLen : SaveWrite(s, n)
    \/ \E s \in LiveSessions : SaveRename(s)
    \/ \E s \in LiveSessions : ReaderReply(s)
    \/ \E s \in LiveSessions : PeerGone(s)
    \/ ExternalRemove(FALSE)
    \/ Cancel

SpecReply == InitReply /\ [][NextReply]_vars

\* the sessions whose clients edit, next to those whose clients view
EditSessions == Sessions \ LiveSessions

\* the save requests that clear the file
ClearMsgs == {m \in InMsgs : m.json /\ MsgType(m) = "save" /\ MsgContent(m) = <<>>}

\* sessions side by side, no cancellation: the viewing ones with all their tasks, the
\* reader loops of the editing ones with their persists; clients go away, the file
\* is removed
NextIso ==
    \/ \E s \in Sessions, r \in Requests : HandleWebSocket(s, r)
    \/ \E s \in Sessions : ReaderStart(s)
    \/ \E s \in Sessions : ReaderInitWrite(s)
    \/ \E s \in Sessions : ReaderLoop(s)
    \/ \E s \in Sessions : ReaderRecvErr(s)
    \/ \E s \in Sessions : PeerGone(s)
    \/ \E s \in LiveSessions : WriterStart(s)
    \/ \E s \in LiveSessions : WriterChange(s)
    \/ \E s \in LiveSessions : WriterRender(s)
    \/ \E s \in LiveSessions : WriterPush(s)
    \/ \E s \in LiveSessions : WriterPing(s)
    \/ \E s \in LiveSessions, ok \in BOOLEAN : WatcherStart(s, ok)
    \/ \E s \in LiveSessions : WatcherEmit(s)
    \/ \E s \in LiveSessions : WatcherEvent(s)
    \/ \E s \in LiveSessions : ReAdd(s)
    \/ \E s \in EditSessions, m \in ClearMsgs : ReaderRecvMsg(s, m)
    \/ \E s \in EditSessions : SaveOpen(s)
    \/ \E s \in EditSessions : SaveRename(s)
    \/ \E s \in EditSessions : ReaderReply(s)
    \/ ExternalRemove(FALSE)

SpecIso == Init /\ [][NextIso]_vars

\* the watcher and the writer loop of the sessions with a file that is touched,
\* removed, moved away and created again
NextEvents ==
    \/ \E s \in LiveSessions, r \in Requests : HandleWebSocket(s, r)
    \/ \E s \in LiveSessions : WriterStart(s)
    \/ \E s \in LiveSessions : WriterChange(s)
    \/ \E s \in LiveSessions : WriterRender(s)
    \/ \E s \in LiveSessions : WriterPush(s)
    \/ \E s \in LiveSessions, ok \in BOOLEAN : WatcherStart(s, ok)
    \/ \E s \in LiveSessions : WatcherEmit(s)
    \/ \E s \in LiveSessions : WatcherEvent(s)
    \/ \E s \in LiveSessions : ReAdd(s)
    \/ \E ops \in TouchOps : ExternalTouch(ops)
    \/ \E moved \in BOOLEAN : ExternalRemove(moved)
    \/ \E c \in ExtContents : ExternalCreate(c)

SpecEvents == Init /\ [][NextEvents]_vars

\* writer and watcher of a server constructed with renderLocally false (flag -api),
\* the file being rewritten and removed by others
NextRemote ==
    \/ \E s \in LiveSessions, r \in Requests : HandleWebSocket(s, r)
    \/ \E s \in LiveSessions : WriterStart(s)
    \/ \E s \in LiveSessions : WriterChange(s)
    \/ \E s \in LiveSessions, o \in ApiOutcomes : WriterRenderRemote(s, o)
    \/ \E s \in LiveSessions : WriterPush(s)
    \/ \E s \in LiveSessions, ok \in BOOLEAN : WatcherStart(s, ok)
    \/ \E s \in LiveSessions : WatcherEmit(s)
    \/ \E s \in LiveSessions : WatcherEvent(s)
    \/ \E s \in LiveSessions : PeerGone(s)
    \/ \E c \in ExtContents : ExternalWrite(c)
    \/ ExternalRemove(FALSE)

SpecRemote == Init /\ [][NextRemote]_vars

\* The scheduling of the tasks: a goroutine that can take a step takes one, a ready
\* cancellation branch of a select is chosen sooner or later, a sleeping re-add
\* wakes up; what clients and other programs do is not forced.
Fairness ==
    \A s \in LiveSessions :
        /\ WF_vars(WriterStart(s) \/ WriterChange(s) \/ WriterRender(s) \/ WriterPush(s)
                    \/ WriterPing(s) \/ WriterCancel(s))
        /\ SF_vars(WriterCancel(s))
        /\ WF_vars((\E ok \in BOOLEAN : WatcherStart(s, ok)) \/ WatcherEmit(s)
                    \/ WatcherEvent(s) \/ WatcherError(s) \/ WatcherCancel(s))
        /\ SF_vars(WatcherCancel(s))
        /\ WF_vars(ReAdd(s))
        /\ WF_vars(ReaderStart(s) \/ ReaderInitWrite(s) \/ ReaderLoop(s)
                    \/ ReaderRecvErr(s))

FairSpec == Spec /\ Fairness

----------------------------------------------------------------------------
(* Claims *)

\* C1: at every moment the target path holds a complete content, the one before
\* some save or the one of some save request: no partially written file is ever
\* observable by a read of the path, whatever saves run concurrently.
C1_NoPartialFile ==
    ReadFile.ok => ReadFile.bytes \in written

\* C2: when a save request with content C is persisted with success and nothing
\* else mutated the files since the request was received, the file read from disk
\* is exactly C.
C2_SaveRoundTrip ==
    \A s \in Sessions :
        lastSave[s].done /\ lastSave[s].clean
            => ReadFile.ok /\ ReadFile.bytes = rbuf[s]

\* C2 witness: a non-empty save has just succeeded undisturbed while another
\* session is in the middle of its own persist
C2_Witness ==
    \E s, t \in Sessions :
        /\ s # t
        /\ lastSave[s].done /\ lastSave[s].clean
        /\ rbuf[s] # <<>>
        /\ fd[t] # NoIno

\* the session was accepted
Accepted(s) == conn[s] \in {"open", "closed"}

\* C3: in every session the first data message the client is sent is the
\* content-tagged initial payload; no render is sent on the connection before it.
C3_InitialSyncFirst ==
    \A s \in Sessions : first[s] \in {"none", "content"}

\* all three tasks of an accepted session have returned
Terminated(s) == wpc[s] = "done" /\ rpc[s] = "done" /\ tpc[s] = "done"

\* C4: once the cancellation signal has fired, the watcher, the writer loop and the
\* reader loop of every session each terminate eventually.
C4_CancelTerminates ==
    cancelled ~> (\A s \in Sessions : Accepted(s) => Terminated(s))

\* C5: over a session's lifetime the connection is closed exactly once: never
\* twice, and once the session's loops have ended not zero times.
C5_ClosedExactlyOnce ==
    \A s \in Sessions :
        /\ closes[s] <= 1
        /\ wpc[s] = "done" /\ rpc[s] = "done" => closes[s] = 1

\* C6: when two or more change notifications come up in the watcher while the
\* writer loop is busy with one render, at most two renders are performed for
\* them: the one in flight and one for the single pending notification.
C6_Coalescing ==
    \A s \in Sessions :
        burst[s].phase \in {"open", "closed"} /\ burst[s].attempts >= 2
            => burst[s].renders <= 2

\* the session is alive and at rest: nothing is queued, scheduled or in progress
Quiescent(s) ==
    /\ ~cancelled
    /\ conn[s] = "open" /\ peer[s] = "up"
    /\ wpc[s] = "select" /\ tpc[s] = "select"
    /\ changes[s] = 0 /\ events[s] = <<>> /\ ~werr[s] /\ readd[s] = 0

\* the last render pushed to the client of s is the rendering of the file as it is
UpToDate(s) ==
    /\ ReadFile.ok
    /\ lastHtml[s] = [kind |-> "html", body |-> Render(ReadFile.bytes)]

\* C7: after any burst of in-place writes and rename-based saves of the file, once
\* a live session has come to rest the last render pushed to its client is the
\* rendering of the file content after the last change.
C7_LatestContentWins ==
    \A s \in Sessions : hist = "steady" /\ Quiescent(s) => UpToDate(s)

\* C8: after the path was removed and then recreated, once a live session has come
\* to rest its writer loop has rendered and pushed the new content.
C8_ReWatchResilience ==
    \A s \in Sessions : hist = "recreated" /\ Quiescent(s) => UpToDate(s)

\* the request bears no Origin (the header is absent, or empty)
NoOrigin(r) == ~r.hasOrigin \/ r.origin = <<>>
\* the request's Origin names the host the request was sent to
SameOrigin(r) == r.hasOrigin /\ Len(r.origin) = 2 /\ r.origin[2] = r.host
\* the request bears an Origin that is not the serving host's
Foreign(r) == ~NoOrigin(r) /\ ~SameOrigin(r)
\* no task of session s was started
NothingStarted(s) == wpc[s] = "idle" /\ rpc[s] = "idle" /\ tpc[s] = "idle"

\* C9: an upgrade is accepted only if the request has no Origin or its Origin is
\* the serving host; a request with a foreign Origin is refused, and for a request
\* that is not accepted no channel is established and no task is ever started.
C9_OriginEnforced ==
    /\ [][\A s \in Sessions, r \in Requests :
            HandleWebSocket(s, r) =>
                /\ conn'[s] = "open" => NoOrigin(r) \/ SameOrigin(r)
                /\ Foreign(r) => conn'[s] \in {"refused", "rejected"}]_vars
    /\ [](\A s \in Sessions : conn[s] \in {"refused", "rejected"} => NothingStarted(s))

\* C9 witness: a request failed the origin check and nothing runs for it
C9_Witness ==
    \E s \in Sessions : conn[s] = "refused" /\ NothingStarted(s)

\* C10: the watcher never waits to emit a notification: at the point where it
\* emits one it always has a step to take, whatever the writer loop does.
C10_WatcherNeverBlocks ==
    \A s \in Sessions : tpc[s] = "emit" => ENABLED WatcherEmit(s)

\* the reader loop is inside a ws.WriteMessage call (initial content, error reply)
ReaderWriting(s) == rpc[s] \in {"initWrite", "reply"}
\* the writer loop is inside a ws.WriteMessage call (render push)
WriterWriting(s) == wpc[s] = "write"

\* C11: the connection of a session has a single writer: in no state are the
\* reader loop and the writer loop of the session both writing to it.
C11_SingleWriter ==
    \A s \in Sessions : ~(ReaderWriting(s) /\ WriterWriting(s))

\* C12: when the persist of a save request fails, the reader loop sends an
\* error-tagged message on the connection (it arrives when the connection still
\* works) and goes on with its loop, connection open, ready for the next request.
C12_SaveFailureReported ==
    [][\A s \in Sessions :
          rpc[s] = "reply" /\ rpc'[s] # "reply" =>
              /\ rpc'[s] = "loop"
              /\ conn'[s] = conn[s]
              /\ closes'[s] = closes[s]
              /\ CanWrite(s) => lastSent'[s] = "error"]_vars

\* C12 witness: after a failed save was reported to the client, a later save of the
\* same session has been read and persisted
C12_Witness ==
    \E s \in Sessions :
        /\ lastSent[s] = "error"
        /\ lastSave[s].done
        /\ ReadFile.ok /\ ReadFile.bytes = rbuf[s]

\* no session is in the middle of a persist, and some save has succeeded
AllSavesDone ==
    /\ \A s \in Sessions : rpc[s] \notin {"open", "write", "rename", "reply"}
    /\ lastWin.some

\* C13: once all the save requests of all the sessions have completed, the file
\* holds, in full, the content of the save whose rename happened last (a save that
\* reported success).
C13_LastWriterWins ==
    AllSavesDone => ReadFile.ok /\ ReadFile.bytes = lastWin.content

\* the session is accepted and works: connection open, client there, no
\* cancellation, and its watcher is running
Alive(s) ==
    /\ ~cancelled
    /\ conn[s] = "open" /\ peer[s] = "up"
    /\ tpc[s] \in {"emit", "select"}

\* the file holds c and the last render pushed to the client of s is not that of c
OutOfSync(s, c) ==
    /\ ReadFile.ok /\ ReadFile.bytes = c
    /\ lastHtml[s] # [kind |-> "html", body |-> Render(c)]

\* C14: sessions stay in sync: a live session does not stay for ever without the
\* render of the content the file has come to hold; after the change that gave the
\* file that content it eventually pushes its render.
C14_SessionsInSync ==
    \A s \in LiveSessions, c \in ExtContents :
        []<>~(Alive(s) /\ OutOfSync(s, c))

\* the connection of the session was closed while no cancellation has fired
EndedUncancelled(s) == conn[s] = "closed" /\ ~cancelled

\* C15: when a session ends for a reason other than cancellation (a failed write,
\* a failed read, the client gone), its connection is closed and its watcher, writer
\* loop and reader loop all terminate eventually, without the cancellation signal.
C15_SessionEndTerminates ==
    \A s \in LiveSessions :
        EndedUncancelled(s) ~> (Terminated(s) \/ cancelled)

\* session s takes a step at which an error arises in it: a persist fails, a render
\* fails, a write to its connection fails, a read from it fails
ErrorStep(s) ==
    \/ rpc[s] \in {"open", "write", "rename"} /\ rpc'[s] = "reply"
    \/ wpc[s] = "render" /\ wpc'[s] = "select"
    \/ wpc[s] \in {"write", "select"} /\ wpc'[s] = "done" /\ ~cancelled
    \/ rpc[s] \in {"initWrite", "reply"} /\ rpc'[s] # rpc[s] /\ ~CanWrite(s)
    \/ rpc[s] \in {"start", "recv"} /\ rpc'[s] = "done"

\* the step leaves the tasks, the connection and the watch of every session but s
\* as they are
OthersUnchanged(s) ==
    \A t \in Sessions \ {s} :
        /\ <<conn'[t], closes'[t], peer'[t]>> = <<conn[t], closes[t], peer[t]>>
        /\ <<rpc'[t], rbuf'[t], fd'[t], off'[t]>> = <<rpc[t], rbuf[t], fd[t], off[t]>>
        /\ <<wpc'[t], wbuf'[t], changes'[t]>> = <<wpc[t], wbuf[t], changes[t]>>
        /\ <<tpc'[t], readd'[t]>> = <<tpc[t], readd[t]>>
        /\ <<watch'[t], events'[t], werr'[t]>> = <<watch[t], events[t], werr[t]>>

\* the step leaves the files as they are: the names, the content behind each name
\* and behind each descriptor another session has open
FilesUnchanged(s) ==
    /\ dir' = dir
    /\ \A n \in Names : dir[n] # NoIno => data'[dir[n]] = data[dir[n]]
    /\ \A t \in Sessions \ {s} : fd[t] # NoIno => data'[fd[t]] = data[fd[t]]

C17_FailedPersistKeepsTarget ==
    \A s \in Sessions : rpc[s] = "reply" => ~dirty[s]

C19_WriteFailureEndsWriter ==
    [][\A s \in Sessions :
          /\ wpc[s] = "write" /\ ~CanWrite(s) /\ wpc'[s] # "write" =>
                /\ wpc'[s] = "done"
                /\ conn'[s] = "closed" /\ closes'[s] = closes[s] + 1
                /\ <<first'[s], lastHtml'[s]>> = <<first[s], lastHtml[s]>>
          /\ wpc[s] = "select" /\ ~CanWrite(s) /\ WriterPing(s) =>
                /\ wpc'[s] = "done"
                /\ conn'[s] = "closed" /\ closes'[s] = closes[s] + 1
          /\ wpc[s] = "done" =>
                /\ wpc'[s] = "done"
                /\ lastHtml'[s] = lastHtml[s]
                /\ first'[s] = "html" => first[s] = "html"]_vars

\* C19 witness: with no cancellation the writer loop of a session whose client is
\* gone has returned and the connection is closed
C19_Witness ==
    \E s \in Sessions :
        /\ ~cancelled
        /\ peer[s] = "gone"
        /\ wpc[s] = "done" /\ conn[s] = "closed"

\* C20: cancellation has priority in the writer loop: once the cancellation signal
\* has fired the writer loop takes no change notification from its select, so it
\* starts no further render and push, a notification pending or not.
C20_CancelPriority ==
    [][\A s \in Sessions :
          cancelled => ~(wpc[s] = "select" /\ wpc'[s] = "render")]_vars

\* the watcher of s has registered its watch of the path
WatcherStarted(s) == tpc[s] \in {"emit", "select"}

\* the file is readable, the client of s is there, its connection is not closed and
\* no cancellation has fired
Servable(s) ==
    /\ ReadFile.ok
    /\ ~cancelled
    /\ peer[s] = "up" /\ conn[s] # "closed"

\* C21: a watcher that has started sends one notification of its own before it
\* looks at any file event, so as long as the file stays readable and the connection
\* alive a first render is pushed to the client, whether file events occur or not.
C21_InitialRender ==
    \A s \in LiveSessions :
        []Servable(s) => [](WatcherStarted(s) => <>(lastHtml[s] # NoMsg))

\* C21 witness: the first render was pushed while the file is as it was at the
\* start and the watcher has no event queued and none to re-register for
C21_Witness ==
    \E s \in Sessions :
        /\ lastHtml[s] = [kind |-> "html", body |-> Render(InitContent)]
        /\ dir["path"] = 1 /\ watch[s] = 1
        /\ events[s] = <<>> /\ readd[s] = 0 /\ ~werr[s]
        /\ CanWrite(s)

\* the event reports a removal or a rename
ReportsUnlink(op) == op \cap {"Remove", "Rename"} # {}
\* the event reports a write or a permission/metadata change, and no removal or rename
ReportsChange(op) == op \cap {"Write", "Chmod"} # {} /\ ~ReportsUnlink(op)

\* C22: whenever the watcher takes an event: one that reports a write or a mode
\* change, alone or with other flags, makes it send a notification and schedule no
\* re-registration; one that reports a removal or a rename makes it send a
\* notification and schedule one re-registration; any other event does neither.
C22_EventClassification ==
    [][\A s \in Sessions :
          tpc[s] = "select" /\ events[s] # <<>> /\ events'[s] = Tail(events[s]) =>
              LET op == Head(events[s])
              IN  /\ ReportsChange(op) => tpc'[s] = "emit" /\ readd'[s] = readd[s]
                  /\ ReportsUnlink(op) => tpc'[s] = "emit" /\ readd'[s] = readd[s] + 1
                  /\ ~ReportsChange(op) /\ ~ReportsUnlink(op) =>
                        tpc'[s] = "select" /\ readd'[s] = readd[s]]_vars

\* C23: a watcher that has started ends only on cancellation: a watch error leaves
\* it at its select, a re-registration (failed or not) leaves it where it is, and
\* nothing but the cancellation signal makes it return.
C23_WatcherKeepsRunning ==
    [][\A s \in Sessions :
          /\ WatcherStarted(s) /\ tpc'[s] = "done" => cancelled
          /\ tpc[s] = "select" /\ werr[s] /\ ~werr'[s] /\ ~cancelled => tpc'[s] = "select"
          /\ readd'[s] < readd[s] => tpc'[s] = tpc[s]]_vars

\* C23 witness: the path is gone and the watch on it is lost, the re-registration
\* after the removal having failed or the removal having been reported as a watch
\* error only; nothing is pending, and the watcher is at its select, not cancelled
C23_Witness ==
    \E s \in Sessions :
        /\ ~cancelled
        /\ tpc[s] = "select"
        /\ dir["path"] = NoIno /\ watch[s] = NoIno
        /\ events[s] = <<>> /\ readd[s] = 0 /\ ~werr[s]

----------------------------------------------------------------------------
(* C24: inbound messages that are not save requests *)

\* the message is a save request: it parses and its type is "save"
IsSave(m) == m.json /\ m.hasType /\ m.type = "save"

\* C24: a message that does not parse, has no type, or has a type other than "save"
\* leaves the file and its temporary sibling as they are, has nothing sent to the
\* client, and has the reader go on to its next read with the connection as it was
C24_OtherMessagesIgnored ==
    [][\A s \in Sessions, m \in InMsgs :
          ReaderRecvMsg(s, m) /\ ~IsSave(m)
          => /\ rpc'[s] = "loop"
             /\ dir' = dir
             /\ data' = data
             /\ fd' = fd
             /\ first' = first
             /\ lastSent' = lastSent
             /\ conn' = conn
             /\ closes' = closes]_vars

\* a session's reader received a message that is not a save request and is reading
\* again
C24_Witness ==
    \E s \in Sessions :
        /\ lastIn[s].kind = "msg"
        /\ ~IsSave(lastIn[s].msg)
        /\ rpc[s] = "recv"
        /\ CanWrite(s)

----------------------------------------------------------------------------
(* C25: the initial content *)

\* the reader is past its initial send
PastInitialSend(s) == rpc[s] \in {"loop", "recv", "open", "write", "rename", "reply"}

\* C25: every session sends the content-tagged initial payload: once its reader is
\* past the initial send, a client that is connected has been sent it (where no
\* writer runs, the first message a client was sent is the only content message
\* it can have been sent)
C25_InitialContentOnce ==
    \A s \in Sessions : PastInitialSend(s) /\ CanWrite(s) => first[s] = "content"

----------------------------------------------------------------------------
(* C26: the initial content is best effort *)

\* the reader is about to fail to deliver the initial content: the file cannot be
\* read, or the write to the client fails
InitialSendFails(s) ==
    \/ rpc[s] = "start" /\ conn[s] = "open" /\ ~ReadFile.ok
    \/ rpc[s] = "initWrite" /\ ~CanWrite(s)

----------------------------------------------------------------------------
(* C27: remote rendering *)

\* C27: with remote rendering a transport error or a response whose status is not
\* 2xx is a render failure: the body of an error response is never pushed to a
\* client as rendered content
C27_RemoteFailureSkipped ==
    \A s \in Sessions : lastHtml[s].body # ApiErrorBody

----------------------------------------------------------------------------
(* C29: save requests after cancellation *)

\* C29: after the context is done the reader persists no further save request: no
\* save request that arrived after cancellation has been persisted
C29_NoSaveAfterCancel ==
    \A s \in Sessions :
        ~ /\ lastIn[s].kind = "msg"
          /\ lastIn[s].late
          /\ IsSave(lastIn[s].msg)
          /\ lastSave[s].done

----------------------------------------------------------------------------
(* C30: save requests without content *)

\* the save request session s received last has no content field
LastSaveBare(s) ==
    /\ lastIn[s].kind = "msg"
    /\ IsSave(lastIn[s].msg)
    /\ ~lastIn[s].msg.hasContent

\* C30: a save request without a content field is persisted as empty content: once
\* its persist has reported success, and until someone else changes the file, the
\* file exists and is empty
C30_MissingContentIsEmpty ==
    \A s \in Sessions :
        LastSaveBare(s) /\ lastSave[s].done /\ lastSave[s].clean
        => ReadFile.ok /\ ReadFile.bytes = <<>>

\* a save request without a content field was persisted over a file that was not
\* empty, and the reader is reading again
C30_Witness ==
    \E s \in Sessions :
        /\ LastSaveBare(s)
        /\ lastSave[s].done
        /\ lastSave[s].clean
        /\ InitContent # <<>>
        /\ rpc[s] = "recv"

----------------------------------------------------------------------------
(* C28: the liveness check. Time advances in steps of one ping interval, and only
   when every goroutine is blocked: in ws.ReadMessage with nothing to read, or in
   the writer's select with no tick to take. A client sends at most one message
   per ping interval. *)

\* ReaderPong as it would be had the pong handler not renewed the read deadline
ReaderPongNoRenew(s) ==
    /\ rpc[s] = "recv"
    /\ CanWrite(s)
    /\ live[s].on
    /\ live[s].pong
    /\ live[s].left > 0
    /\ live' = [live EXCEPT ![s].pong = FALSE, ![s].renewed = TRUE]
    /\ UNCHANGED <<fsVars, cancelled, connVars, readerVars, writerVars, watcherVars,
                   ghostVars>>

\* reader, inside ws.ReadMessage: a pong arrives before the deadline, the pong
\* handler sets the read deadline anew, the read goes on
ReaderPong(s) ==
    /\ rpc[s] = "recv"
    /\ CanWrite(s)
    /\ live[s].on
    /\ live[s].pong
    /\ live[s].left > 0
    /\ live' = [live EXCEPT ![s].pong = FALSE, ![s].renewed = TRUE,
                            ![s].left = ReadDeadline]
    /\ UNCHANGED <<fsVars, cancelled, connVars, readerVars, writerVars, watcherVars,
                   ghostVars>>

\* reader: ws.ReadMessage fails because the read deadline has passed: return
\* (deferred ws.Close())
ReaderDeadline(s) ==
    /\ rpc[s] = "recv"
    /\ conn[s] = "open"
    /\ live[s].on
    /\ live[s].left = 0
    /\ rpc' = [rpc EXCEPT ![s] = "done"]
    /\ Close(s)
    /\ live' = [live EXCEPT ![s].expired = TRUE]
    /\ UNCHANGED <<fsVars, cancelled, peer, rbuf, fd, off, writerVars, watcherVars,
                   ghostVars>>

\* the client stops answering pings (it hangs, or the network drops its frames
\* silently); what is written to it is still accepted
ClientMute(s) ==
    /\ conn[s] = "open"
    /\ peer[s] = "up"
    /\ live[s].on
    /\ ~live[s].mute
    /\ live' = [live EXCEPT ![s].mute = TRUE]
    /\ UNCHANGED <<fsVars, cancelled, connVars, readerVars, writerVars, watcherVars,
                   ghostVars>>

\* session s has nothing to do until time advances
Blocked(s) ==
    /\ rpc[s] \in {"idle", "recv", "done"}
    /\ wpc[s] \in {"idle", "select", "done"}
    /\ wpc[s] = "select" => ~live[s].due /\ ~cancelled
    /\ rpc[s] = "recv" => /\ CanWrite(s)
                          /\ ~live[s].pong
                          /\ live[s].left > 0

\* one ping interval passes: pingTicker fires for the writers that are running,
\* the read deadlines that are set come nearer, and each client may send one more
\* message
Tick ==
    /\ \E s \in Sessions : live[s].on /\ (rpc[s] = "recv" \/ wpc[s] = "select")
    /\ \A s \in Sessions : Blocked(s)
    /\ live' = [s \in Sessions |->
                  IF ~live[s].on THEN live[s]
                  ELSE [live[s] EXCEPT
                          !.got = FALSE,
                          !.due = @ \/ wpc[s] = "select",
                          !.left = IF rpc[s] = "recv" /\ conn[s] = "open"
                                   THEN Max(@ - PingInterval, 0) ELSE @]]
    /\ UNCHANGED <<fsVars, cancelled, connVars, readerVars, writerVars, watcherVars,
                   ghostVars>>

\* the server as constructed, time being modelled
InitLive ==
    /\ InitProgram
    /\ burst = [s \in Sessions |-> NoBurst]
    /\ lastSent = [s \in Sessions |-> "off"]
    /\ lastIn = [s \in Sessions |-> NoIn]
    /\ live = [s \in Sessions |-> [NoLive EXCEPT !.on = TRUE]]
    /\ hist = "off"

\* the messages of a client that does not edit
OtherMsgs == {m \in InMsgs : ~IsSave(m) /\ ~m.hasContent}

\* reader and writer of the sessions with their pings, pongs and deadlines, the
\* clients sending messages, falling silent or going away
NextLive ==
    \/ \E s \in LiveSessions, r \in Requests : HandleWebSocket(s, r)
    \/ \E s \in LiveSessions : ReaderStart(s)
    \/ \E s \in LiveSessions : ReaderInitWrite(s)
    \/ \E s \in LiveSessions : ReaderLoop(s)
    \/ \E s \in LiveSessions : ReaderRecvErr(s)
    \/ \E s \in LiveSessions, m \in OtherMsgs : ReaderRecvMsg(s, m)
    \/ \E s \in LiveSessions : ReaderPong(s)
    \/ \E s \in LiveSessions : ReaderDeadline(s)
    \/ \E s \in LiveSessions : WriterStart(s)
    \/ \E s \in LiveSessions : WriterPing(s)
    \/ \E s \in LiveSessions : ClientMute(s)
    \/ \E s \in LiveSessions : PeerGone(s)
    \/ Tick

SpecLive == InitLive /\ [][NextLive]_vars

\* goroutines that can run do run, and time passes
FairnessLive ==
    /\ \A s \in LiveSessions :
          /\ WF_vars(WriterStart(s) \/ WriterPing(s))
          /\ WF_vars(ReaderStart(s) \/ ReaderInitWrite(s) \/ ReaderLoop(s)
                      \/ ReaderRecvErr(s) \/ ReaderPong(s) \/ ReaderDeadline(s))
    /\ WF_vars(Tick)

FairLive == SpecLive /\ FairnessLive

\* the session is over: reader and writer have returned, the connection is closed
SessionOver(s) == rpc[s] = "done" /\ wpc[s] = "done" /\ conn[s] = "closed"

\* C28: the read deadline is set on entry and renewed by every pong: the read of a
\* client that answers every ping never fails on the deadline, and once a client
\* has stopped answering pings its reader returns, the connection is closed and
\* the writer returns
C28_DeadlineFollowsPongs ==
    /\ [](\A s \in Sessions : live[s].expired => live[s].mute)
    /\ \A s \in Sessions : live[s].mute ~> SessionOver(s)

\* a client answered pings, the deadline being renewed, then stopped answering;
\* the read failed on the deadline and reader and writer have returned
C28_Witness ==
    \E s \in Sessions :
        /\ live[s].renewed
        /\ live[s].mute
        /\ live[s].expired
        /\ peer[s] = "up"
        /\ SessionOver(s)

----------------------------------------------------------------------------
(* C31: re-registration and the life of the watcher *)

\* C31: a re-registration scheduled by the watcher runs while its watcher is alive:
\* none runs after the watcher has returned and closed w
C31_ReAddWhileAlive ==
    [][\A s \in Sessions : ReAdd(s) => tpc[s] # "done"]_vars

====
